---- MODULE Spec2Model ----
(***************************************************************************)
(* Delta-grid / column-stabilisation engine of the OEIS probes.            *)
(*                                                                         *)
(* The scripts 1_15_L.py, 1_16_L.py and 1_18.py run the same module-level  *)
(* pipeline (horizon, grid, irregular prefixes, L-sequences, split, file,  *)
(* prime chains); 1_19.py runs the dictionary grid, the column builder and *)
(* the longest-run analysis; 1_17.py adds the OEIS lookup and the          *)
(* OEIS_A065091 scripts probe the fixed points of max_y.  Each function is *)
(* an operator; the grid loops are stepped pair by pair, the other stages  *)
(* are one action each.                                                    *)
(***************************************************************************)
EXTENDS Integers, Sequences, FiniteSets, TLC

VARIABLES
    k_max,               \* module parameter k_max
    n_end,               \* n_end / n_end_required
    pc,                  \* position of the script
    error,               \* "none", or the place an exception left the script
    a, b,                \* loop indices of the grid generator
    max_delta,           \* the array (memopt) or dictionary (1_19) being built
    irregular_prefixes,  \* result of extract_irregular_prefixes
    L_values,            \* key -> assembled L-sequence
    L_split,             \* key -> [left, right]
    output_file,         \* lines written to the report file
    prime_chains,        \* result of check_consecutive_prime_chain
    columns,             \* result of build_columns (1_19)
    sequences,           \* result of analyze_columns (1_19)
    processed,           \* pairs (a, b) whose update the generator has executed
    n_start,             \* lower end of the range of the A065091 probe
    found_numbers,       \* values reported by the A065091 probe
    oeis_call,           \* arguments of the match_to_oeis call
    response,            \* what the OEIS request of match_to_oeis comes back with
    matches,             \* return value of match_to_oeis
    partition,           \* outer index a -> the worker that owns it
    workers,             \* worker -> its pairs still to process and its array
    report_n,            \* loop index n of the report loop of 1_17.py
    oeis_log             \* requests, replies and pauses of the report loop, in order

vars == <<k_max, n_end, pc, error, a, b, max_delta, irregular_prefixes,
          L_values, L_split, output_file, prime_chains, columns, sequences,
          processed, n_start, found_numbers, oeis_call, response, matches,
          partition, workers, report_n, oeis_log>>

\* state of the partitioned generator and of the report loop of 1_17.py
sideVars == <<partition, workers, report_n, oeis_log>>

\* state of the A065091 probe and of the OEIS lookup
probeVars == <<n_start, found_numbers, oeis_call, response, matches, sideVars>>

----------------------------------------------------------------------------
(* Bounds of the model *)

MaxNEnd == 16        \* horizons given to the grid generator on its own
MaxHorizonK == 60    \* k_max values given to the horizon estimator on its own
MaxK == 10           \* k_max values of the pipeline runs
MaxSplitLen == 5     \* length of the lists given to the splitter on its own
MaxSegLen == 3       \* length of the segments given to the classifier on its own
MaxMult == 2         \* multipliers of the segment values
MaxPrime == 13       \* primes of the segment values
MaxExtractNEnd == 42 \* horizons given to the grid generator before an extraction
MaxColLen == 4       \* length of the columns given to the analysis on its own
MaxProbeEnd == 16    \* upper ends of the ranges given to the A065091 probe
MaxItems == 2        \* length of the lists in the replies given to match_to_oeis
MaxResults == 2      \* max_results arguments given to match_to_oeis

----------------------------------------------------------------------------
(* Python built-ins *)

Max(S) == CHOOSE m \in S : \A s \in S : s <= m

\* range(lo, hi) as a set
Range(lo, hi) == {i \in lo..(hi - 1) : TRUE}

\* math.ceil(m / 2) for an integer m >= 0
CeilHalf(m) == (m + 1) \div 2

----------------------------------------------------------------------------
(* Horizon estimator *)

\* a plausible slip: floor instead of ceil
a080827_floor(n) == (n * n + 1) \div 2

\* math.ceil((n**2 + 1)/2): the float quotient is exact while n*n + 1 < 2^53
a080827(n) == CeilHalf(n * n + 1)

\* a plausible slip: the range started one column early
HorizonRange_from_three(k) == Range(3, k + 1)

\* range(4, k_max+1) of compute_n_end_from_k
HorizonRange(k) == Range(4, k + 1)

\* max() of an empty generator raises ValueError
compute_n_end_from_k_raises(k) == HorizonRange(k) = {}

\* a plausible slip: the factor 2 left out
compute_n_end_from_k_undoubled(k) == Max({a080827(j) : j \in HorizonRange(k)})

compute_n_end_from_k(k) == Max({2 * a080827(j) : j \in HorizonRange(k)})

----------------------------------------------------------------------------
(* Delta-grid generator, memory-optimised array version *)

\* max_delta = [0]*(max_x+1)
ZeroArray(n) == [x \in 0..((n \div 2) * (n \div 2)) |-> 0]

\* a plausible slip: the inner range made inclusive of (n_end - a + 1)//2
InnerStop_inclusive(n, p) == (n - p + 1) \div 2 + 1

\* exclusive upper bound of the inner range: range(a+1, (n_end - a + 1)//2)
InnerStop(n, p) == (n - p + 1) \div 2

\* a plausible slip: the comparison dropped, the last pair wins
UpdatePair_last_wins(md, p, q) == [md EXCEPT ![q * q - p * p] = q - p]

\* loop body: x = b*b - a*a; y = b - a; if y > max_delta[x]: max_delta[x] = y
UpdatePair(md, p, q) ==
    LET x == q * q - p * p
        y == q - p
    IN  IF y > md[x] THEN [md EXCEPT ![x] = y] ELSE md

\* max_delta[x] with x outside the list raises IndexError
IndexError == <<"IndexError">>

PairInBounds(md, p, q) == (q * q - p * p) \in DOMAIN md

RECURSIVE MemoptInner(_, _, _, _)
MemoptInner(md, n, p, q) ==
    IF q >= InnerStop(n, p) THEN md
    ELSE IF ~PairInBounds(md, p, q) THEN IndexError
    ELSE MemoptInner(UpdatePair(md, p, q), n, p, q + 1)

RECURSIVE MemoptOuter(_, _, _)
MemoptOuter(md, n, p) ==
    IF md = IndexError \/ p >= n \div 2 THEN md
    ELSE MemoptOuter(MemoptInner(md, n, p, p + 1), n, p + 1)

compute_max_delta_memopt(n) == MemoptOuter(ZeroArray(n), n, 0)

----------------------------------------------------------------------------
(* Irregular prefixes (position-preserving mode) *)

\* [lo, lo+1, ..., hi-1] as a list
RangeSeq(lo, hi) == [i \in 1..(IF hi > lo THEN hi - lo ELSE 0) |-> lo + i - 1]

\* sorted(S) for a set of integers within lo..hi
SortedSeq(S, lo, hi) == SelectSeq(RangeSeq(lo, hi + 1), LAMBDA e : e \in S)

\* the keys of grouped_by_y: the values y > 0 of the array
GroupKeys(md) == {md[x] : x \in DOMAIN md} \ {0}

\* grouped_by_y[y]: the x with max_delta[x] = y, in the order of enumerate
GroupOf(md, y) ==
    SelectSeq(RangeSeq(0, Cardinality(DOMAIN md)), LAMBDA x : md[x] = y)

grouped_by_y(md) == [y \in GroupKeys(md) |-> GroupOf(md, y)]

\* max() of an empty sequence raises ValueError
extract_irregular_prefixes_raises(md) == GroupKeys(md) = {}

\* col = [grouped_by_y[y][i] for y in sorted_ys if i < len(grouped_by_y[y])]
ColumnOf(grouped, sorted_ys, i) ==
    LET ys == SelectSeq(sorted_ys, LAMBDA y : i < Len(grouped[y]))
    IN  [j \in 1..Len(ys) |-> grouped[ys[j]][i + 1]]

\* a plausible slip: the list sorted and deduplicated, as the longest-run
\* analysis does
IrregularOf_sorted(col, k) ==
    LET vals == {col[i] : i \in {j \in 1..Len(col) : j * (j + 2 * (k - 1)) # col[j]}}
    IN  IF vals = {} THEN <<>> ELSE SortedSeq(vals, 0, Max(vals))

\* [x_val for idx, x_val in enumerate(col) if (idx+1)*(idx+1+2*(k-1)) != x_val]
IrregularOf(col, k) ==
    LET idxs == SelectSeq(RangeSeq(0, Len(col)),
                    LAMBDA idx : (idx + 1) * (idx + 1 + 2 * (k - 1)) # col[idx + 1])
    IN  [j \in 1..Len(idxs) |-> col[idxs[j] + 1]]

\* a plausible slip: the last column compared with > instead of >=
ColumnSkipped_last_kept(k, kmax) == k <= 3 \/ k > kmax

\* if k <= 3 or k >= k_max: continue
ColumnSkipped(k, kmax) == k <= 3 \/ k >= kmax

extract_irregular_prefixes(md, kmax) ==
    LET grouped == grouped_by_y(md)
        ys == DOMAIN grouped
        sorted_ys == SortedSeq(ys, 1, Max(ys))
        max_len == Max({Len(grouped[y]) : y \in ys})
        prefix == [k \in {i + 1 : i \in Range(0, max_len)} |->
                      IF ColumnSkipped(k, kmax) THEN <<>>
                      ELSE IrregularOf(ColumnOf(grouped, sorted_ys, k - 1), k)]
    IN  [k \in {j \in DOMAIN prefix : prefix[j] # <<>>} |-> prefix[k]]

----------------------------------------------------------------------------
(* Cross-column assembly *)

\* f"L{n}"
LKey(n) == <<"L", n>>

\* max() of an empty sequence raises ValueError
assemble_raises(ip) == DOMAIN ip = {}

\* a plausible slip: the columns walked from k_max-1 down to 4
AssembleOne_descending(ip, kmax, n) ==
    LET ks == SelectSeq(RangeSeq(4, kmax),
                        LAMBDA k : k \in DOMAIN ip /\ Len(ip[k]) > n)
    IN  [i \in 1..Len(ks) |-> ip[ks[Len(ks) + 1 - i]][n + 1]]

\* for k in range(4, k_max): if k in irregular_prefixes and
\* len(irregular_prefixes[k]) > n: append irregular_prefixes[k][n]
AssembleOne(ip, kmax, n) ==
    LET ks == SelectSeq(RangeSeq(4, kmax),
                        LAMBDA k : k \in DOMAIN ip /\ Len(ip[k]) > n)
    IN  [i \in 1..Len(ks) |-> ip[ks[i]][n + 1]]

assemble(ip, kmax) ==
    LET max_len == Max({Len(ip[k]) : k \in DOMAIN ip})
    IN  [key \in {LKey(n + 4) : n \in Range(0, max_len)} |->
            AssembleOne(ip, kmax, key[2] - 4)]

----------------------------------------------------------------------------
(* Decrease-point splitter *)

\* a plausible slip: > in place of >=
RECURSIVE SplitScan_strict(_, _)
SplitScan_strict(L, i) ==
    IF i <= 0 THEN 0
    ELSE IF L[i] > L[i + 1] THEN i
    ELSE SplitScan_strict(L, i - 1)

\* for i in range(n-1, 0, -1): if L[i-1] >= L[i]: split_index = i; break
\* (0 stands for None: range(n-1, 0, -1) never yields 0)
RECURSIVE SplitScan(_, _)
SplitScan(L, i) ==
    IF i <= 0 THEN 0
    ELSE IF L[i] >= L[i + 1] THEN i
    ELSE SplitScan(L, i - 1)

split_on_strict_decrease(L) ==
    LET split_index == SplitScan(L, Len(L) - 1)
    IN  IF split_index = 0 THEN [left |-> <<>>, right |-> L]
        ELSE [left |-> SubSeq(L, 1, split_index),
              right |-> SubSeq(L, split_index + 1, Len(L))]

split_all(lv) == [key \in DOMAIN lv |-> split_on_strict_decrease(lv[key])]

----------------------------------------------------------------------------
(* Report file *)

NoFile == [opened |-> FALSE, lines |-> <<>>]

\* the lines written for one n of range(4, k_max)
LinesOf(ls, n) ==
    IF LKey(n) \notin DOMAIN ls THEN <<>>
    ELSE <<<<LKey(n), 1, ls[LKey(n)].left>>>>
         \o (IF ls[LKey(n)].right # <<>>
             THEN <<<<LKey(n), 2, ls[LKey(n)].right>>>> ELSE <<>>)
         \o <<<<"blank">>>>

RECURSIVE WriteFrom(_, _, _)
WriteFrom(ls, n, kmax) ==
    IF n >= kmax THEN <<>> ELSE LinesOf(ls, n) \o WriteFrom(ls, n + 1, kmax)

save_to_file(ls, kmax) == [opened |-> TRUE, lines |-> WriteFrom(ls, 4, kmax)]

----------------------------------------------------------------------------
(* Prime-chain classifier *)

IsPrime(n) == n >= 2 /\ \A d \in 2..(n - 1) : n % d # 0

\* a plausible slip: min in place of max
LargestPrimeFactor_smallest(n) ==
    CHOOSE d \in 2..n : n % d = 0 /\ \A e \in 2..(d - 1) : n % e # 0

\* max(sympy.factorint(n)) for n >= 2
LargestPrimeFactor(n) == Max({d \in 2..n : n % d = 0 /\ IsPrime(d)})

\* sympy.prevprime(p) raises ValueError for p < 3
PrevPrimeRaises(p) == p < 3

PrevPrime(p) == Max({d \in 2..(p - 1) : IsPrime(d)})

\* a plausible slip: current_prime never stepped back
RECURSIVE ChainWalk_prime_kept(_, _, _, _)
ChainWalk_prime_kept(seq, k, i, p) ==
    IF i = 0 THEN "valid"
    ELSE IF seq[i] # k * p THEN "invalid"
    ELSE ChainWalk_prime_kept(seq, k, i - 1, p)

\* the backward walk over reversed(seq), from position i with current_prime p:
\* "valid", "invalid" (a value differs) or "raise" (prevprime has no answer)
RECURSIVE ChainWalk(_, _, _, _)
ChainWalk(seq, k, i, p) ==
    IF i = 0 THEN "valid"
    ELSE IF seq[i] # k * p THEN "invalid"
    ELSE IF PrevPrimeRaises(p) THEN "raise"
    ELSE ChainWalk(seq, k, i - 1, PrevPrime(p))

\* one key of the loop: "skip", "valid", "invalid" or "raise"
ChainOutcome(seq) ==
    IF Len(seq) < 2 THEN "skip"
    ELSE IF seq[Len(seq)] < 2 THEN "skip"
    ELSE LET largest_prime == LargestPrimeFactor(seq[Len(seq)])
             k == seq[Len(seq)] \div largest_prime
         IN  ChainWalk(seq, k, Len(seq), largest_prime)

MatchRecord(seq) ==
    LET largest_prime == LargestPrimeFactor(seq[Len(seq)])
    IN  [k |-> seq[Len(seq)] \div largest_prime,
         prime_chain_end |-> largest_prime,
         length |-> Len(seq),
         sequence |-> seq]

check_consecutive_prime_chain_raises(ls) ==
    \E key \in DOMAIN ls : ChainOutcome(ls[key].right) = "raise"

check_consecutive_prime_chain(ls) ==
    [key \in {kk \in DOMAIN ls : ChainOutcome(ls[kk].right) = "valid"} |->
        MatchRecord(ls[key].right)]

----------------------------------------------------------------------------
(* 1_19.py: dictionary grid, column builder, longest-run analysis *)

\* exclusive upper bound of the inner range: range(a+1, n_end - a + 1)
InnerStopDict(n, p) == n - p + 1

\* loop body: if x not in max_delta or y > max_delta[x]: max_delta[x] = y
UpdatePairDict(md, p, q) ==
    LET x == q * q - p * p
        y == q - p
    IN  IF x \notin DOMAIN md THEN md @@ (x :> y)
        ELSE IF y > md[x] THEN [md EXCEPT ![x] = y]
        ELSE md

\* max() of an empty sequence raises ValueError
build_columns_raises(md) == DOMAIN md = {}

\* sorted(grouped_by_y[y]) for every value y of the dictionary
SortedGroups(md) ==
    LET xmax == Max(DOMAIN md)
    IN  [y \in {md[x] : x \in DOMAIN md} |->
            SelectSeq(RangeSeq(0, xmax + 1),
                      LAMBDA x : x \in DOMAIN md /\ md[x] = y)]

build_columns(md) ==
    LET groups == SortedGroups(md)
        ys == DOMAIN groups
        sorted_ys == SortedSeq(ys, 0, Max(ys))
        max_len == Max({Len(groups[y]) : y \in ys})
    IN  [c \in 1..max_len |-> ColumnOf(groups, sorted_ys, c - 1)]

\* the run counters before the scan of a column (0 stands for None)
RunStart ==
    [longest_run_start |-> 0, longest_run_end |-> 0, longest_len |-> 0,
     current_start |-> 0, current_len |-> 0]

\* a plausible slip: >= in place of >, the latest of the longest runs wins
RecordRun_latest(st) ==
    IF st.current_len >= st.longest_len
    THEN [st EXCEPT !.longest_len = st.current_len,
                    !.longest_run_start = st.current_start,
                    !.longest_run_end = st.current_start + st.current_len - 1]
    ELSE st

\* if current_len > longest_len: record the current run as the longest
RecordRun(st) ==
    IF st.current_len > st.longest_len
    THEN [st EXCEPT !.longest_len = st.current_len,
                    !.longest_run_start = st.current_start,
                    !.longest_run_end = st.current_start + st.current_len - 1]
    ELSE st

\* one iteration of "for i, x_val in enumerate(col)" at position n = i + 1
RunStep(st, col, k, n) ==
    IF col[n] = n * (n + 2 * (k - 1))
    THEN [st EXCEPT !.current_start = IF st.current_start = 0 THEN n
                                      ELSE st.current_start,
                    !.current_len = st.current_len + 1]
    ELSE [RecordRun(st) EXCEPT !.current_start = 0, !.current_len = 0]

\* the loop "for i, x_val in enumerate(col)"; the counters are read at every
\* iteration (current_len is never negative)
RECURSIVE RunScan(_, _, _, _)
RunScan(st, col, k, n) ==
    IF n > Len(col) \/ st.current_len < 0 THEN st
    ELSE RunScan(RunStep(st, col, k, n), col, k, n + 1)

\* a plausible slip: the final run check left out
FinalRunCheck_omitted(st) == st

\* "Final run check" after the loop
FinalRunCheck(st) == RecordRun(st)

LongestRun(col, k) == FinalRunCheck(RunScan(RunStart, col, k, 1))

\* (i+1) < longest_run_start raises TypeError when longest_run_start is None
AnalyzeColumnRaises(col, k) ==
    col # <<>> /\ LongestRun(col, k).longest_run_start = 0

\* a plausible slip: every value before the run kept, matching or not
IrregularBefore_all(col, k, start) ==
    LET vals == {col[n] : n \in {m \in 1..Len(col) : m < start}}
    IN  IF vals = {} THEN <<>> ELSE SortedSeq(vals, 0, Max(vals))

\* sorted(set(irregular_prefix))
IrregularBefore(col, k, start) ==
    LET vals == {col[n] : n \in {m \in 1..Len(col) :
                    m < start /\ m * (m + 2 * (k - 1)) # col[m]}}
    IN  IF vals = {} THEN <<>> ELSE SortedSeq(vals, 0, Max(vals))

\* the columns enumerate(columns[:k_max], start=1) keeps: idx > 3
AnalyzedColumns(cols, kmax) ==
    {idx \in 1..Len(cols) : idx <= kmax /\ ~(idx <= 3)}

analyze_columns_raises(cols, kmax) ==
    \E k \in AnalyzedColumns(cols, kmax) : AnalyzeColumnRaises(cols[k], k)

analyze_columns(cols, kmax) ==
    [k \in AnalyzedColumns(cols, kmax) |->
        LET run == LongestRun(cols[k], k)
        IN  [formula |-> <<"x = n(n + ", 2 * (k - 1), ")">>,
             stabilization_n |-> run.longest_run_start,
             run_length |-> run.longest_len,
             irregular_prefix |->
                 IrregularBefore(cols[k], k, run.longest_run_start)]]

----------------------------------------------------------------------------
(* OEIS_A065091_0.py / OEIS_A065091_1.py: the fixed points of max_y *)

\* math.isqrt
Isqrt(n) == CHOOSE r \in 0..n : r * r <= n /\ (r + 1) * (r + 1) > n

\* a plausible slip: the inner range one short, range(a + 1, a + n_isqrt)
MaxYInnerStop_short(ne, p) == p + Isqrt(ne)

\* for b in range(a + 1, a + 1 + n_isqrt): the exclusive end
MaxYInnerStop(ne, p) == p + 1 + Isqrt(ne)

\* max_y_per_x.get(x, 0)
GetOrZero(m, x) == IF x \in DOMAIN m THEN m[x] ELSE 0

\* the body of the inner loop for the pair (p, q)
UpdateMaxY(m, ns, ne, stop_at_n_end, p, q) ==
    LET x == IF p * p >= q * q THEN p * p - q * q ELSE q * q - p * p
        y == x * (IF q >= p THEN q - p ELSE p - q)
    IN  IF y = 0 \/ x < ns THEN m
        ELSE IF stop_at_n_end /\ x >= ne THEN m
        ELSE IF y > GetOrZero(m, x)
             THEN [j \in DOMAIN m \cup {x} |-> IF j = x THEN y ELSE m[j]]
             ELSE m

RECURSIVE MaxYInner(_, _, _, _, _, _)
MaxYInner(m, ns, ne, stop_at_n_end, p, q) ==
    IF q >= MaxYInnerStop(ne, p) THEN m
    ELSE MaxYInner(UpdateMaxY(m, ns, ne, stop_at_n_end, p, q),
                   ns, ne, stop_at_n_end, p, q + 1)

RECURSIVE MaxYOuter(_, _, _, _, _)
MaxYOuter(m, ns, ne, stop_at_n_end, p) ==
    IF p >= ne \div 2 THEN m
    ELSE MaxYOuter(MaxYInner(m, ns, ne, stop_at_n_end, p, p + 1),
                   ns, ne, stop_at_n_end, p + 1)

compute_max_y(ns, ne, stop_at_n_end) == MaxYOuter(<<>>, ns, ne, stop_at_n_end, 0)

\* run: the x of sorted(max_y_per_x.keys()) with x != 1 and max_y_per_x[x] == x
FixedPoints(m) ==
    LET xs == {x \in DOMAIN m : x # 1 /\ m[x] = x}
    IN  IF xs = {} THEN <<>> ELSE SortedSeq(xs, 0, Max(xs))

----------------------------------------------------------------------------
(* 1_17.py: the OEIS lookup *)

\* JSON values as resp.json() returns them: None, int, str, list, dict
JNull == <<"null">>
JNumber(n) == <<"number", n>>
JString(chars) == <<"string", chars>>
JList(items) == <<"list", items>>
JDict(fields) == <<"dict", fields>>

\* what requests.get / raise_for_status / resp.json() come back with
RequestException == <<"RequestException">>
NotJson == <<"ValueError">>
JsonReply(data) == <<"json", data>>

\* bool(v) of a JSON value
Truthy(v) ==
    CASE v[1] = "null" -> FALSE
      [] v[1] = "number" -> v[2] # 0
      [] v[1] = "string" -> v[2] # <<>>
      [] v[1] = "list" -> v[2] # <<>>
      [] v[1] = "dict" -> DOMAIN v[2] # {}

\* d.get(key, default) of a dict
DictGet(d, key, default) == IF key \in DOMAIN d[2] THEN d[2][key] ELSE default

\* results = data.get('results', []) / data / []
ResultsOf(data) ==
    IF data[1] = "dict" THEN DictGet(data, "results", JList(<<>>))
    ELSE IF data[1] = "list" THEN data
    ELSE JList(<<>>)

\* results[:max_results] raises TypeError unless results is a list or a str
SliceRaises(results) == results[1] \notin {"list", "string"}

\* results[:max_results] as the sequence the for loop walks: the items of a
\* list, the one-character strings of a str
SliceOf(results, mr) ==
    LET n == IF Len(results[2]) < mr THEN Len(results[2]) ELSE mr
    IN  IF results[1] = "list" THEN SubSeq(results[2], 1, n)
        ELSE [i \in 1..n |-> JString(<<results[2][i]>>)]

\* r.get raises AttributeError unless r is a dict
ItemRaises(r) == r[1] # "dict"

\* if number and name
ItemMatches(r) ==
    Truthy(DictGet(r, "number", JNull)) /\ Truthy(DictGet(r, "name", JNull))

\* the part of match_to_oeis after the try block raises
match_to_oeis_raises(data, mr) ==
    LET results == ResultsOf(data)
    IN  \/ SliceRaises(results)
        \/ \E i \in DOMAIN SliceOf(results, mr) : ItemRaises(SliceOf(results, mr)[i])

\* the list matches built by the for loop
MatchesOf(data, mr) ==
    LET rs == SelectSeq(SliceOf(ResultsOf(data), mr), ItemMatches)
    IN  [i \in 1..Len(rs) |->
            <<DictGet(rs[i], "number", JNull), DictGet(rs[i], "name", JNull)>>]

----------------------------------------------------------------------------
(* State machine *)

Unset == <<>>

SidesIdle ==
    /\ partition = Unset
    /\ workers = Unset
    /\ report_n = 0
    /\ oeis_log = <<>>

ProbesIdle ==
    /\ processed = {}
    /\ SidesIdle
    /\ n_start = 0
    /\ found_numbers = Unset
    /\ oeis_call = Unset
    /\ response = Unset
    /\ matches = Unset

RestIdle ==
    /\ error = "none"
    /\ irregular_prefixes = Unset
    /\ L_values = Unset
    /\ L_split = Unset
    /\ output_file = NoFile
    /\ prime_chains = Unset
    /\ columns = Unset
    /\ sequences = Unset
    /\ ProbesIdle

\* n_end = compute_n_end_from_k(k_max)
Horizon ==
    /\ pc = "start"
    /\ \/ /\ compute_n_end_from_k_raises(k_max)
          /\ pc' = "error"
          /\ error' = "compute_n_end_from_k"
          /\ UNCHANGED <<n_end, a, b, max_delta>>
       \/ /\ ~compute_n_end_from_k_raises(k_max)
          /\ n_end' = compute_n_end_from_k(k_max)
          /\ pc' = "horizon_done"
          /\ UNCHANGED <<error, a, b, max_delta>>
    /\ UNCHANGED <<k_max, irregular_prefixes, L_values, L_split, output_file,
                   prime_chains, columns, sequences>>
    /\ UNCHANGED <<processed, probeVars>>

\* compute_max_delta_memopt: entry, one pair, next a, return
GridCall ==
    /\ pc = "horizon_done"
    /\ max_delta' = ZeroArray(n_end)
    /\ a' = 0
    /\ b' = 1
    /\ processed' = {}
    /\ pc' = "grid"
    /\ UNCHANGED <<k_max, n_end, error, irregular_prefixes, L_values, L_split,
                   output_file, prime_chains, columns, sequences>>
    /\ UNCHANGED probeVars

GridPair ==
    /\ pc = "grid"
    /\ a < n_end \div 2
    /\ b < InnerStop(n_end, a)
    /\ IF PairInBounds(max_delta, a, b)
       THEN /\ max_delta' = UpdatePair(max_delta, a, b)
            /\ processed' = processed \cup {<<a, b>>}
            /\ b' = b + 1
            /\ UNCHANGED <<pc, error>>
       ELSE /\ pc' = "error"
            /\ error' = "compute_max_delta_memopt"
            /\ UNCHANGED <<max_delta, processed, b>>
    /\ UNCHANGED <<k_max, n_end, a, irregular_prefixes, L_values, L_split,
                   output_file, prime_chains, columns, sequences>>
    /\ UNCHANGED probeVars

GridNextA ==
    /\ pc = "grid"
    /\ a < n_end \div 2
    /\ b >= InnerStop(n_end, a)
    /\ a' = a + 1
    /\ b' = a + 2
    /\ UNCHANGED <<k_max, n_end, pc, error, max_delta, irregular_prefixes,
                   L_values, L_split, output_file, prime_chains, columns,
                   sequences>>
    /\ UNCHANGED <<processed, probeVars>>

GridReturn ==
    /\ pc = "grid"
    /\ a >= n_end \div 2
    /\ pc' = "grid_done"
    /\ UNCHANGED <<k_max, n_end, error, a, b, max_delta, irregular_prefixes,
                   L_values, L_split, output_file, prime_chains, columns,
                   sequences>>
    /\ UNCHANGED <<processed, probeVars>>

\* irregular_prefixes = extract_irregular_prefixes(max_delta_mem, k_max)
Extract ==
    /\ pc = "grid_done"
    /\ IF extract_irregular_prefixes_raises(max_delta)
       THEN /\ pc' = "error"
            /\ error' = "extract_irregular_prefixes"
            /\ UNCHANGED irregular_prefixes
       ELSE /\ irregular_prefixes' = extract_irregular_prefixes(max_delta, k_max)
            /\ pc' = "extracted"
            /\ UNCHANGED error
    /\ UNCHANGED <<k_max, n_end, a, b, max_delta, L_values, L_split,
                   output_file, prime_chains, columns, sequences>>
    /\ UNCHANGED <<processed, probeVars>>

\* max_len = max(...); for n in range(max_len): L_values[f"L{n+4}"] = [...]
Assemble ==
    /\ pc = "extracted"
    /\ \/ /\ assemble_raises(irregular_prefixes)
          /\ pc' = "error"
          /\ error' = "assemble"
          /\ UNCHANGED L_values
       \/ /\ ~assemble_raises(irregular_prefixes)
          /\ L_values' = assemble(irregular_prefixes, k_max)
          /\ pc' = "assembled"
          /\ UNCHANGED error
    /\ UNCHANGED <<k_max, n_end, a, b, max_delta, irregular_prefixes, L_split,
                   output_file, prime_chains, columns, sequences>>
    /\ UNCHANGED <<processed, probeVars>>

\* a plausible slip: the splitter takes the elements out of the list it is
\* given, leaving every L_values[key] empty
Split_consuming ==
    /\ pc = "assembled"
    /\ L_split' = split_all(L_values)
    /\ L_values' = [key \in DOMAIN L_values |-> <<>>]
    /\ pc' = "split_done"
    /\ UNCHANGED <<k_max, n_end, error, a, b, max_delta, irregular_prefixes,
                   output_file, prime_chains, columns, sequences>>
    /\ UNCHANGED <<processed, probeVars>>

\* for key, seq in L_values.items(): L_split[key] = {"left": ..., "right": ...}
Split ==
    /\ pc = "assembled"
    /\ L_split' = split_all(L_values)
    /\ pc' = "split_done"
    /\ UNCHANGED <<k_max, n_end, error, a, b, max_delta, irregular_prefixes,
                   L_values, output_file, prime_chains, columns, sequences>>
    /\ UNCHANGED <<processed, probeVars>>

\* with open(output_file, "w") as f: ...
Save ==
    /\ pc = "split_done"
    /\ output_file' = save_to_file(L_split, k_max)
    /\ pc' = "saved"
    /\ UNCHANGED <<k_max, n_end, error, a, b, max_delta, irregular_prefixes,
                   L_values, L_split, prime_chains, columns, sequences>>
    /\ UNCHANGED <<processed, probeVars>>

\* prime_chains = check_consecutive_prime_chain(L_split)
Chain ==
    /\ pc = "saved"
    /\ IF check_consecutive_prime_chain_raises(L_split)
       THEN /\ pc' = "error"
            /\ error' = "check_consecutive_prime_chain"
            /\ UNCHANGED prime_chains
       ELSE /\ prime_chains' = check_consecutive_prime_chain(L_split)
            /\ pc' = "done"
            /\ UNCHANGED error
    /\ UNCHANGED <<k_max, n_end, a, b, max_delta, irregular_prefixes, L_values,
                   L_split, output_file, columns, sequences>>
    /\ UNCHANGED <<processed, probeVars>>

----------------------------------------------------------------------------
(* The pipeline of 1_15_L.py, 1_16_L.py and 1_18.py, for k_max in 0..MaxK *)

Init ==
    /\ k_max \in 0..MaxK
    /\ n_end = 0
    /\ pc = "start"
    /\ a = 0
    /\ b = 0
    /\ max_delta = Unset
    /\ RestIdle

Next ==
    \/ Horizon
    \/ GridCall
    \/ GridPair
    \/ GridNextA
    \/ GridReturn
    \/ Extract
    \/ Assemble
    \/ Split
    \/ Save
    \/ Chain

Spec == Init /\ [][Next]_vars

----------------------------------------------------------------------------
(* The pipeline of 1_19.py, for k_max in 0..MaxK *)

\* compute_max_delta: entry, one pair, next a, return
Grid19Call ==
    /\ pc = "horizon_done"
    /\ max_delta' = <<>>
    /\ a' = 0
    /\ b' = 1
    /\ pc' = "grid19"
    /\ UNCHANGED <<k_max, n_end, error, irregular_prefixes, L_values, L_split,
                   output_file, prime_chains, columns, sequences>>
    /\ UNCHANGED <<processed, probeVars>>

Grid19Pair ==
    /\ pc = "grid19"
    /\ a < n_end
    /\ b < InnerStopDict(n_end, a)
    /\ max_delta' = UpdatePairDict(max_delta, a, b)
    /\ b' = b + 1
    /\ UNCHANGED <<k_max, n_end, pc, error, a, irregular_prefixes, L_values,
                   L_split, output_file, prime_chains, columns, sequences>>
    /\ UNCHANGED <<processed, probeVars>>

Grid19NextA ==
    /\ pc = "grid19"
    /\ a < n_end
    /\ b >= InnerStopDict(n_end, a)
    /\ a' = a + 1
    /\ b' = a + 2
    /\ UNCHANGED <<k_max, n_end, pc, error, max_delta, irregular_prefixes,
                   L_values, L_split, output_file, prime_chains, columns,
                   sequences>>
    /\ UNCHANGED <<processed, probeVars>>

Grid19Return ==
    /\ pc = "grid19"
    /\ a >= n_end
    /\ pc' = "grid19_done"
    /\ UNCHANGED <<k_max, n_end, error, a, b, max_delta, irregular_prefixes,
                   L_values, L_split, output_file, prime_chains, columns,
                   sequences>>
    /\ UNCHANGED <<processed, probeVars>>

\* columns = build_columns(max_delta)
BuildColumns ==
    /\ pc = "grid19_done"
    /\ IF build_columns_raises(max_delta)
       THEN /\ pc' = "error"
            /\ error' = "build_columns"
            /\ UNCHANGED columns
       ELSE /\ columns' = build_columns(max_delta)
            /\ pc' = "columns_built"
            /\ UNCHANGED error
    /\ UNCHANGED <<k_max, n_end, a, b, max_delta, irregular_prefixes, L_values,
                   L_split, output_file, prime_chains, sequences>>
    /\ UNCHANGED <<processed, probeVars>>

\* sequences = analyze_columns(columns, k_max=k_max)
AnalyzeColumns ==
    /\ pc = "columns_built"
    /\ IF analyze_columns_raises(columns, k_max)
       THEN /\ pc' = "error"
            /\ error' = "analyze_columns"
            /\ UNCHANGED sequences
       ELSE /\ sequences' = analyze_columns(columns, k_max)
            /\ pc' = "analyzed"
            /\ UNCHANGED error
    /\ UNCHANGED <<k_max, n_end, a, b, max_delta, irregular_prefixes, L_values,
                   L_split, output_file, prime_chains, columns>>
    /\ UNCHANGED <<processed, probeVars>>

Next19 ==
    \/ Horizon
    \/ Grid19Call
    \/ Grid19Pair
    \/ Grid19NextA
    \/ Grid19Return
    \/ BuildColumns
    \/ AnalyzeColumns

Spec19 == Init /\ [][Next19]_vars

----------------------------------------------------------------------------
(* Either script, 1_18.py or 1_19.py, run on k_max in 0..MaxK *)

NextScripts ==
    \/ Horizon
    \/ GridCall
    \/ GridPair
    \/ GridNextA
    \/ GridReturn
    \/ Extract
    \/ Assemble
    \/ Split
    \/ Save
    \/ Chain
    \/ Grid19Call
    \/ Grid19Pair
    \/ Grid19NextA
    \/ Grid19Return
    \/ BuildColumns
    \/ AnalyzeColumns

SpecScripts == Init /\ [][NextScripts]_vars

----------------------------------------------------------------------------
(* split_on_strict_decrease(L) for every list over SplitVals up to MaxSplitLen *)

\* the values of the list [2, 3, 5, 9, 8]
SplitVals == {2, 3, 5, 8, 9}

SeqsUpTo(V, n) == UNION {[1..m -> V] : m \in 0..n}

InitSplit ==
    /\ k_max = 0
    /\ n_end = 0
    /\ pc = "assembled"
    /\ error = "none"
    /\ a = 0
    /\ b = 0
    /\ max_delta = Unset
    /\ irregular_prefixes = Unset
    /\ \E L \in SeqsUpTo(SplitVals, MaxSplitLen) : L_values = (LKey(4) :> L)
    /\ L_split = Unset
    /\ output_file = NoFile
    /\ prime_chains = Unset
    /\ columns = Unset
    /\ sequences = Unset
    /\ ProbesIdle

NextSplit == Split

SpecSplit == InitSplit /\ [][NextSplit]_vars

----------------------------------------------------------------------------
(* check_consecutive_prime_chain for every right segment up to MaxSegLen of   *)
(* values 1 and m*p, m in 1..MaxMult, p prime up to MaxPrime                  *)

SegVals == {1} \cup {m * p : m \in 1..MaxMult, p \in {q \in 2..MaxPrime : IsPrime(q)}}

InitChain ==
    /\ k_max = 0
    /\ n_end = 0
    /\ pc = "saved"
    /\ error = "none"
    /\ a = 0
    /\ b = 0
    /\ max_delta = Unset
    /\ irregular_prefixes = Unset
    /\ L_values = Unset
    /\ \E seg \in SeqsUpTo(SegVals, MaxSegLen) :
          L_split = (LKey(4) :> [left |-> <<>>, right |-> seg])
    /\ output_file = NoFile
    /\ prime_chains = Unset
    /\ columns = Unset
    /\ sequences = Unset
    /\ ProbesIdle

NextChain == Chain

SpecChain == InitChain /\ [][NextChain]_vars

----------------------------------------------------------------------------
(* compute_max_delta_memopt(n_end) for every horizon 0..MaxNEnd *)

InitGrid ==
    /\ k_max = 0
    /\ n_end \in 0..MaxNEnd
    /\ pc = "horizon_done"
    /\ a = 0
    /\ b = 0
    /\ max_delta = Unset
    /\ RestIdle

NextGrid == GridCall \/ GridPair \/ GridNextA \/ GridReturn

SpecGrid == InitGrid /\ [][NextGrid]_vars

(* compute_n_end_from_k(k_max) for every k_max 0..MaxHorizonK *)

InitHorizon ==
    /\ k_max \in 0..MaxHorizonK
    /\ n_end = 0
    /\ pc = "start"
    /\ a = 0
    /\ b = 0
    /\ max_delta = Unset
    /\ RestIdle

NextHorizon == Horizon

SpecHorizon == InitHorizon /\ [][NextHorizon]_vars

----------------------------------------------------------------------------
(* run(n_start, n_end) of the A065091 probe for 0 <= n_start < n_end <= MaxProbeEnd *)

\* max_y_per_x = compute_max_y(n_start, n_end, stop_at_n_end=True); the report loop
RunProbe ==
    /\ pc = "probe"
    /\ found_numbers' = FixedPoints(compute_max_y(n_start, n_end, TRUE))
    /\ pc' = "probed"
    /\ UNCHANGED <<k_max, n_end, error, a, b, max_delta, irregular_prefixes,
                   L_values, L_split, output_file, prime_chains, columns,
                   sequences, processed, n_start, oeis_call, response, matches,
                   sideVars>>

InitProbe ==
    /\ k_max = 0
    /\ n_end \in 1..MaxProbeEnd
    /\ n_start \in 0..(n_end - 1)
    /\ pc = "probe"
    /\ error = "none"
    /\ a = 0
    /\ b = 0
    /\ max_delta = Unset
    /\ irregular_prefixes = Unset
    /\ L_values = Unset
    /\ L_split = Unset
    /\ output_file = NoFile
    /\ prime_chains = Unset
    /\ columns = Unset
    /\ sequences = Unset
    /\ processed = {}
    /\ SidesIdle
    /\ found_numbers = Unset
    /\ oeis_call = Unset
    /\ response = Unset
    /\ matches = Unset

NextProbe == RunProbe

SpecProbe == InitProbe /\ [][NextProbe]_vars

----------------------------------------------------------------------------
(* match_to_oeis(sequence, max_results) against every reply of the server with *)
(* up to MaxItems results                                                      *)

\* the objects of a reply: 'number' and 'name' absent, falsy or truthy
ItemObjects ==
    {JDict(f) : f \in UNION {[K -> {JNull}] : K \in SUBSET {"number", "name"}}}
    \cup {JDict([number |-> n, name |-> m]) :
            n \in {JNumber(0), JNumber(45)},
            m \in {JString(<<>>), JString(<<"T">>)}}

\* the elements a JSON list can hold here: objects, and values that are not
Items == ItemObjects \cup {JNull, JNumber(45), JString(<<"T">>)}

ItemLists == {JList(items) : items \in SeqsUpTo(Items, MaxItems)}

\* the values of the key 'results'
ResultsValues ==
    ItemLists \cup {JNull, JNumber(45), JString(<<>>), JString(<<"T">>),
                    JDict(<<>>)}

\* the payloads resp.json() can return
Payloads ==
    {JDict(<<>>)} \cup {JDict([results |-> r]) : r \in ResultsValues}
    \cup ItemLists \cup {JNull, JNumber(45), JString(<<"T">>)}

Responses == {RequestException, NotJson} \cup {JsonReply(d) : d \in Payloads}

\* one call of match_to_oeis
MatchToOeis ==
    /\ pc = "oeis_call"
    /\ IF oeis_call.sequence = <<>>
       THEN /\ matches' = <<>>
            /\ pc' = "oeis_returned"
            /\ UNCHANGED <<response, error>>
       ELSE \E resp \in Responses :
            /\ response' = resp
            /\ IF resp \in {RequestException, NotJson}
               THEN /\ matches' = <<>>
                    /\ pc' = "oeis_returned"
                    /\ UNCHANGED error
               ELSE IF match_to_oeis_raises(resp[2], oeis_call.max_results)
               THEN /\ pc' = "error"
                    /\ error' = "match_to_oeis"
                    /\ UNCHANGED matches
               ELSE /\ matches' = MatchesOf(resp[2], oeis_call.max_results)
                    /\ pc' = "oeis_returned"
                    /\ UNCHANGED error
    /\ UNCHANGED <<k_max, n_end, a, b, max_delta, irregular_prefixes, L_values,
                   L_split, output_file, prime_chains, columns, sequences,
                   processed, n_start, found_numbers, oeis_call, sideVars>>

InitOeis ==
    /\ k_max = 0
    /\ n_end = 0
    /\ pc = "oeis_call"
    /\ error = "none"
    /\ a = 0
    /\ b = 0
    /\ max_delta = Unset
    /\ irregular_prefixes = Unset
    /\ L_values = Unset
    /\ L_split = Unset
    /\ output_file = NoFile
    /\ prime_chains = Unset
    /\ columns = Unset
    /\ sequences = Unset
    /\ processed = {}
    /\ SidesIdle
    /\ n_start = 0
    /\ found_numbers = Unset
    /\ \E sq \in {<<>>, <<28, 44>>}, mr \in 1..MaxResults :
          oeis_call = [sequence |-> sq, max_results |-> mr]
    /\ response = Unset
    /\ matches = Unset

NextOeis == MatchToOeis

SpecOeis == InitOeis /\ [][NextOeis]_vars

----------------------------------------------------------------------------
(* extract_irregular_prefixes(compute_max_delta_memopt(n_end), k_max) for every *)
(* horizon 0..MaxExtractNEnd and every k_max 0..MaxK                            *)

InitExtract ==
    /\ k_max \in 0..MaxK
    /\ n_end \in 0..MaxExtractNEnd
    /\ pc = "horizon_done"
    /\ a = 0
    /\ b = 0
    /\ max_delta = Unset
    /\ RestIdle

NextExtract == GridCall \/ GridPair \/ GridNextA \/ GridReturn \/ Extract

SpecExtract == InitExtract /\ [][NextExtract]_vars

----------------------------------------------------------------------------
(* analyze_columns([[], [], [], col]) for every column 4 up to MaxColLen over  *)
(* ColVals                                                                     *)

\* the values the predictor of column 4 gives at the positions 1..MaxColLen,
\* and two values it never gives
ColVals == {n * (n + 6) : n \in 1..MaxColLen} \cup {11, 20}

InitAnalyze ==
    /\ k_max = 4
    /\ n_end = 0
    /\ pc = "columns_built"
    /\ error = "none"
    /\ a = 0
    /\ b = 0
    /\ max_delta = Unset
    /\ irregular_prefixes = Unset
    /\ L_values = Unset
    /\ L_split = Unset
    /\ output_file = NoFile
    /\ prime_chains = Unset
    /\ \E col \in SeqsUpTo(ColVals, MaxColLen) : columns = <<<<>>, <<>>, <<>>, col>>
    /\ sequences = Unset
    /\ ProbesIdle

NextAnalyze == AnalyzeColumns

SpecAnalyze == InitAnalyze /\ [][NextAnalyze]_vars

----------------------------------------------------------------------------
(* Properties of the grid generator *)

MaxOrZero(S) == IF S = {} THEN 0 ELSE Max(S)

\* gaps b-a of the pairs 0 <= a < b <= n_end//2 with b*b - a*a = x
GapsUpToHalf(n, x) ==
    {q - p : <<p, q>> \in {pq \in (0..n) \X (0..n) :
        /\ pq[1] < pq[2]
        /\ pq[2] <= n \div 2
        /\ pq[2] * pq[2] - pq[1] * pq[1] = x}}

\* gaps b-a of the pairs 0 <= a < b with a + 2b < n_end and b*b - a*a = x
GapsInHorizon(n, x) ==
    {q - p : <<p, q>> \in {pq \in (0..n) \X (0..n) :
        /\ pq[1] < pq[2]
        /\ pq[1] + 2 * pq[2] < n
        /\ pq[2] * pq[2] - pq[1] * pq[1] = x}}

\* C1, as stated: the returned array holds, for every x, the maximum gap over
\* all pairs 0 <= a < b <= n_end//2 with b*b - a*a = x (0 when there is none).
C1_AllPairsUpToHalf ==
    pc = "grid_done" =>
        \A x \in DOMAIN max_delta : max_delta[x] = MaxOrZero(GapsUpToHalf(n_end, x))

\* C1, amended: the returned array is indexed by 0..(n_end//2)^2 and holds, for
\* every x, the maximum gap over the pairs 0 <= a < b with a + 2b < n_end and
\* b*b - a*a = x, and 0 exactly when no such pair exists.
C1_MaxOverEnumeratedPairs ==
    pc = "grid_done" =>
        /\ DOMAIN max_delta = 0..((n_end \div 2) * (n_end \div 2))
        /\ \A x \in DOMAIN max_delta :
              /\ max_delta[x] = MaxOrZero(GapsInHorizon(n_end, x))
              /\ (max_delta[x] = 0) <=> (GapsInHorizon(n_end, x) = {})

\* a returned array with an x produced by two pairs of different gaps:
\* 9 = 3*3 - 0*0 = 5*5 - 4*4
C1_Witness ==
    /\ pc = "grid_done"
    /\ n_end = 16
    /\ GapsInHorizon(n_end, 9) = {1, 3}
    /\ max_delta[9] = 3

----------------------------------------------------------------------------
(* Properties of the horizon estimator *)

----------------------------------------------------------------------------
(* Properties of the pipeline horizon *)

\* 2*ceil((k*k+1)/2) in closed form
HorizonOf(k) == IF k % 2 = 0 THEN k * k + 2 ELSE k * k + 1

\* C3: for k_max >= 5 and every column 4 <= k < k_max, the irregular prefix
\* extracted at the horizon of k_max is the one extracted at the horizon of
\* k_max + 1 (column filter k_max + 1): present in both or in neither, and equal.
C3_HorizonPopulatesColumns ==
    (pc = "extracted" /\ k_max >= 5) =>
        LET larger == extract_irregular_prefixes(
                          compute_max_delta_memopt(HorizonOf(k_max + 1)), k_max + 1)
        IN  \A k \in 4..(k_max - 1) :
                /\ (k \in DOMAIN irregular_prefixes) <=> (k \in DOMAIN larger)
                /\ k \in DOMAIN larger => irregular_prefixes[k] = larger[k]

C3_Witness ==
    /\ pc = "extracted"
    /\ k_max = 6
    /\ n_end = 38
    /\ irregular_prefixes = (4 :> <<20>> @@ 5 :> <<11, 28, 56>>)

----------------------------------------------------------------------------
(* Properties of the splitter *)

StrictlyIncreasing(s) == \A i \in 1..(Len(s) - 1) : s[i] < s[i + 1]

Suffix(s, n) == SubSeq(s, Len(s) - n + 1, Len(s))

\* C4: split_on_strict_decrease(L) returns left, right with left + right = L,
\* right strictly increasing and left empty or left[-1] >= right[0]; right is
\* the longest strictly increasing suffix of L; a list of at most one element
\* gives left = [], right = L; [2,3,5,9,8] gives [2,3,5,9] and [8].
C4_SplitContract ==
    pc = "split_done" =>
        \A key \in DOMAIN L_values :
            LET L == L_values[key]
                left == L_split[key].left
                right == L_split[key].right
            IN  /\ left \o right = L
                /\ StrictlyIncreasing(right)
                /\ left = <<>> \/ left[Len(left)] >= right[1]
                /\ \A n \in 0..Len(L) :
                      StrictlyIncreasing(Suffix(L, n)) => n <= Len(right)
                /\ Len(L) <= 1 => (left = <<>> /\ right = L)
                /\ L = <<2, 3, 5, 9, 8>> => (left = <<2, 3, 5, 9>> /\ right = <<8>>)

C4_Witness ==
    /\ pc = "split_done"
    /\ L_values[LKey(4)] = <<2, 3, 5, 9, 8>>
    /\ L_split[LKey(4)] = [left |-> <<2, 3, 5, 9>>, right |-> <<8>>]

----------------------------------------------------------------------------
(* Properties of the prime-chain classifier *)

ChainReturned == pc \in {"done", "error"}

\* the primes up to p, ascending
PrimesUpTo(p) == SelectSeq(RangeSeq(2, p + 1), IsPrime)

\* seg, read backward, is k*p0, k*prev(p0), k*prev(prev(p0)), ... with p0 the
\* largest prime factor of seg[-1] and k = seg[-1] / p0
ConsecutivePrimeMultiples(seg) ==
    /\ Len(seg) >= 2
    /\ seg[Len(seg)] >= 2
    /\ LET last == seg[Len(seg)]
           p0 == Max({d \in 2..last : IsPrime(d) /\ last % d = 0})
           k == last \div p0
           ps == PrimesUpTo(p0)
       IN  /\ Len(seg) <= Len(ps)
           /\ \A i \in 1..Len(seg) : seg[i] = k * ps[Len(ps) - Len(seg) + i]

\* C5: a key is reported as a match exactly when its right segment is, read
\* backward, k*p0, k*prev(p0), ... without a skipped prime; the record then
\* carries k, prime_chain_end = p0 and length = len(seg).
C5_MatchIffConsecutiveChain ==
    ChainReturned =>
        \A key \in DOMAIN L_split :
            LET seg == L_split[key].right
            IN  /\ (key \in DOMAIN prime_chains) <=> ConsecutivePrimeMultiples(seg)
                /\ key \in DOMAIN prime_chains =>
                      LET p0 == Max({d \in 2..seg[Len(seg)] :
                                        IsPrime(d) /\ seg[Len(seg)] % d = 0})
                      IN  /\ prime_chains[key].k = seg[Len(seg)] \div p0
                          /\ prime_chains[key].prime_chain_end = p0
                          /\ prime_chains[key].length = Len(seg)

\* C6, as stated: the right segment [26, 22, 14] is a match with multiplier 2,
\* terminal prime 13 and length 3.
C6_DescendingFixtureMatches ==
    (ChainReturned /\ L_split[LKey(4)].right = <<26, 22, 14>>) =>
        /\ LKey(4) \in DOMAIN prime_chains
        /\ prime_chains[LKey(4)].k = 2
        /\ prime_chains[LKey(4)].prime_chain_end = 13
        /\ prime_chains[LKey(4)].length = 3

\* C6, amended: the right segment [14, 22, 26] = [2*7, 2*11, 2*13] is a match
\* with multiplier 2, terminal prime 13 and length 3; [26, 22, 14] is not a match.
C6_AscendingFixtureMatches ==
    ChainReturned =>
        /\ L_split[LKey(4)].right = <<14, 22, 26>> =>
              /\ pc = "done"
              /\ LKey(4) \in DOMAIN prime_chains
              /\ prime_chains[LKey(4)].k = 2
              /\ prime_chains[LKey(4)].prime_chain_end = 13
              /\ prime_chains[LKey(4)].length = 3
        /\ L_split[LKey(4)].right = <<26, 22, 14>> =>
              /\ pc = "done"
              /\ LKey(4) \notin DOMAIN prime_chains

C6_Witness ==
    /\ pc = "done"
    /\ L_split[LKey(4)].right = <<14, 22, 26>>
    /\ LKey(4) \in DOMAIN prime_chains

\* C7: no match is reported for a segment with a repeated value or one that is
\* not strictly increasing from first to last element.
C7_NoMatchUnlessIncreasing ==
    ChainReturned =>
        \A key \in DOMAIN L_split :
            LET seg == L_split[key].right
            IN  (\/ \E i, j \in 1..Len(seg) : i # j /\ seg[i] = seg[j]
                 \/ ~StrictlyIncreasing(seg))
                => key \notin DOMAIN prime_chains

\* a segment with a repeated value has gone through the classifier
C7_Witness ==
    /\ pc = "done"
    /\ L_split[LKey(4)].right = <<22, 26, 26>>
    /\ prime_chains = <<>>

----------------------------------------------------------------------------
(* Properties of the column analysis *)

\* C8: in every analysed column, every position from stabilization_n to the
\* end of the column holds the predicted value n*(n + 2*(k-1)).
C8_PredictorHoldsAfterStabilization ==
    pc = "analyzed" =>
        \A k \in DOMAIN sequences :
            sequences[k].stabilization_n # 0 =>
                \A n \in sequences[k].stabilization_n..Len(columns[k]) :
                    columns[k][n] = n * (n + 2 * (k - 1))

\* column 5 at k_max = 5: a one-position run at n = 2, the long run from n = 5
C8_Witness ==
    /\ pc = "analyzed"
    /\ k_max = 5
    /\ sequences[5].stabilization_n = 5
    /\ sequences[5].run_length = Len(columns[5]) - 4
    /\ \E n \in 1..4 : columns[5][n] = n * (n + 8)

----------------------------------------------------------------------------
(* Properties of the assembly *)

Assembled == pc \in {"assembled", "split_done", "saved", "done"}

\* C9: the keys are L4 .. L(max_len+3); L(n+4) holds one entry per column
\* 4 <= k < k_max whose irregular prefix has more than n entries, nothing for
\* the others, and the entry of column k stands at the rank of k among the
\* contributing columns and is the n-th entry of its prefix.
C9_AssemblyByIncreasingColumn ==
    Assembled =>
        LET max_len == Max({Len(irregular_prefixes[k]) : k \in DOMAIN irregular_prefixes})
        IN  /\ DOMAIN L_values = {LKey(n + 4) : n \in 0..(max_len - 1)}
            /\ \A n \in 0..(max_len - 1) :
                  LET L == L_values[LKey(n + 4)]
                      contributing == {k \in 4..(k_max - 1) :
                                          /\ k \in DOMAIN irregular_prefixes
                                          /\ Len(irregular_prefixes[k]) > n}
                  IN  /\ Len(L) = Cardinality(contributing)
                      /\ \A k \in contributing :
                            L[1 + Cardinality({j \in contributing : j < k})]
                                = irregular_prefixes[k][n + 1]

\* L5 at k_max = 7: column 4 has a single irregular value and is skipped
C9_Witness ==
    /\ pc = "assembled"
    /\ k_max = 7
    /\ Len(irregular_prefixes[4]) = 1
    /\ L_values[LKey(5)] = <<28, 44>>

----------------------------------------------------------------------------
(* Properties of the configuration check *)

\* C10: for k_max <= 3 the script ends with the error of the horizon
\* estimator and nothing else has run: no grid, no prefixes, no L-sequences,
\* no split, no file, no classification.
C10_SmallKMaxStopsAtHorizon ==
    k_max <= 3 =>
        /\ pc \in {"start", "error"}
        /\ pc = "error" => error = "compute_n_end_from_k"
        /\ max_delta = Unset
        /\ irregular_prefixes = Unset
        /\ L_values = Unset
        /\ L_split = Unset
        /\ output_file = NoFile
        /\ prime_chains = Unset

C10_Witness ==
    /\ k_max = 3
    /\ pc = "error"
    /\ error = "compute_n_end_from_k"
    /\ output_file = NoFile

----------------------------------------------------------------------------
(* Properties of the pipeline on an empty extraction *)

\* extract_irregular_prefixes has returned
Extracted ==
    \/ pc \in {"extracted", "assembled", "split_done", "saved", "done"}
    \/ pc = "error" /\ error \in {"assemble", "check_consecutive_prime_chain"}

\* C11: when extract_irregular_prefixes returns an empty mapping (k_max = 4,
\* no column k with 3 < k < k_max), the pipeline does not raise and goes on
\* with an empty set of L-sequences.
C11_EmptyExtractionCompletes ==
    (Extracted /\ DOMAIN irregular_prefixes = {}) =>
        /\ pc # "error"
        /\ L_values = <<>>
        /\ L_split = <<>>

----------------------------------------------------------------------------
(* Properties of the column selection *)

\* C12 as stated: neither extract_irregular_prefixes nor analyze_columns
\* reports a column outside 4..k_max-1.
C12_OnlyColumnsBelowKMax ==
    /\ Extracted => DOMAIN irregular_prefixes \subseteq 4..(k_max - 1)
    /\ pc = "analyzed" => DOMAIN sequences \subseteq 4..(k_max - 1)

\* C12: extract_irregular_prefixes reports only columns 4..k_max-1;
\* analyze_columns reports only columns 4..k_max, the column k_max included
\* whenever the grid has it; no column k <= 3 or k > k_max is reported by
\* either.
C12_ReportedColumns ==
    /\ Extracted => DOMAIN irregular_prefixes \subseteq 4..(k_max - 1)
    /\ pc = "analyzed" =>
          /\ DOMAIN sequences \subseteq 4..k_max
          /\ Len(columns) >= k_max => k_max \in DOMAIN sequences

C12_Witness ==
    /\ pc = "analyzed"
    /\ k_max = 5
    /\ DOMAIN sequences = {4, 5}
    /\ sequences[5].stabilization_n = 5

----------------------------------------------------------------------------
(* Properties of the A065091 probe *)

\* the odd primes p with lo <= p < hi, ascending
OddPrimesIn(lo, hi) ==
    SortedSeq({p \in lo..(hi - 1) : p % 2 = 1 /\ IsPrime(p)}, lo, hi)

\* C13: for 0 <= n_start < n_end the values the probe reports are exactly
\* the odd primes p with n_start <= p < n_end, in ascending order: no odd
\* prime is missing, no composite, no even number and not 1 is reported.
C13_ProbeReportsOddPrimes ==
    pc = "probed" => found_numbers = OddPrimesIn(n_start, n_end)

C13_Witness ==
    /\ pc = "probed"
    /\ n_start = 4
    /\ n_end = 16
    /\ found_numbers = <<5, 7, 11, 13>>

----------------------------------------------------------------------------
(* Properties of the OEIS lookup *)

OeisCallEnded == pc \in {"oeis_returned", "error"}

\* the reply carries no usable result: a failure, or a payload without any
\* result object
ReplyWithoutResults ==
    \/ response \in {RequestException, NotJson}
    \/ /\ response # Unset
       /\ response[1] = "json"
       /\ \/ response[2][1] \notin {"dict", "list"}
          \/ /\ response[2][1] = "dict"
             /\ DictGet(response[2], "results", JNull)[1] # "list"
          \/ LET rs == IF response[2][1] = "dict"
                       THEN DictGet(response[2], "results", JNull)
                       ELSE response[2]
             IN  /\ rs[1] = "list"
                 /\ \A i \in DOMAIN rs[2] : rs[2][i][1] # "dict"

\* C14: match_to_oeis never raises to its caller; for a network failure, a
\* payload that is not JSON or has an unexpected shape, and a reply with no
\* match it returns the empty list, otherwise at most max_results pairs.
C14_LookupNeverRaises ==
    OeisCallEnded =>
        /\ pc = "oeis_returned"
        /\ Len(matches) <= oeis_call.max_results
        /\ ReplyWithoutResults => matches = <<>>

----------------------------------------------------------------------------
(* Properties of the loop ranges of the grid generator *)

\* C15 as stated: every pair with 0 <= a < n_end/2 and a < b <= (n_end-a+1)/2,
\* the upper bound inclusive, has been processed and shows in the array.
C15_InclusiveInnerRange ==
    pc = "grid_done" =>
        \A p \in 0..n_end : \A q \in (p + 1)..((n_end - p + 1) \div 2) :
            2 * p < n_end =>
                /\ <<p, q>> \in processed
                /\ q * q - p * p \in DOMAIN max_delta
                /\ max_delta[q * q - p * p] >= q - p

\* C15: the generator processes exactly the pairs (a, b) with
\* 0 <= a < n_end // 2 and a < b < (n_end - a + 1) // 2, the upper bound on
\* b exclusive: each of them has updated x = b*b - a*a with y = b - a, and
\* the pair with b = (n_end - a + 1) // 2 is not processed.
C15_ExclusiveInnerRange ==
    LET pairs == {pq \in (0..n_end) \X (0..n_end) :
                    /\ pq[1] < n_end \div 2
                    /\ pq[1] < pq[2]
                    /\ pq[2] < (n_end - pq[1] + 1) \div 2}
    IN  /\ pc \in {"grid", "grid_done"} => processed \subseteq pairs
        /\ pc = "grid_done" =>
              /\ processed = pairs
              /\ \A pq \in pairs :
                    max_delta[pq[2] * pq[2] - pq[1] * pq[1]] >= pq[2] - pq[1]
              /\ \A p \in 0..n_end :
                    <<p, (n_end - p + 1) \div 2>> \notin processed

C15_Witness ==
    /\ pc = "grid_done"
    /\ n_end = 16
    /\ <<0, 7>> \in processed
    /\ <<0, 8>> \notin processed
    /\ max_delta[49] = 7
    /\ max_delta[64] = 0

----------------------------------------------------------------------------
(* Properties of the irregular-prefix extraction *)

\* the x with max_delta[x] = y
GapMembers(md, y) == {x \in DOMAIN md : md[x] = y}

\* the k-th smallest element of a set of integers with at least k elements
KthSmallest(S, k) == CHOOSE x \in S : Cardinality({z \in S : z < x}) = k - 1

\* col_k: over the ascending gap values y having at least k members, the
\* k-th smallest x of gap y
ColumnByGaps(md, k) ==
    LET gaps == {y \in 1..MaxOrZero({md[x] : x \in DOMAIN md}) :
                    Cardinality(GapMembers(md, y)) >= k}
        ys == SortedSeq(gaps, 1, MaxOrZero(gaps))
    IN  [i \in 1..Len(ys) |-> KthSmallest(GapMembers(md, ys[i]), k)]

\* the values of col at the positions that disagree with the predictor of
\* column k, in position order
MismatchesInOrder(col, k) ==
    LET at == {i \in 1..Len(col) : col[i] # i * (i + 2 * (k - 1))}
        pos == SortedSeq(at, 1, Len(col))
    IN  [j \in 1..Len(pos) |-> col[pos[j]]]

\* C16: the mapping returned by extract_irregular_prefixes has, for each
\* 4 <= k < k_max, the mismatching values of col_k in column-position order,
\* neither sorted nor deduplicated; a column without a mismatching value has
\* no key, and there is no other key.
C16_PrefixesInColumnOrder ==
    pc = "extracted" =>
        /\ DOMAIN irregular_prefixes \subseteq 4..(k_max - 1)
        /\ \A k \in 4..(k_max - 1) :
              LET expected == MismatchesInOrder(ColumnByGaps(max_delta, k), k)
              IN  IF expected = <<>>
                  THEN k \notin DOMAIN irregular_prefixes
                  ELSE /\ k \in DOMAIN irregular_prefixes
                       /\ irregular_prefixes[k] = expected

C16_Witness ==
    /\ pc = "extracted"
    /\ n_end = 42
    /\ k_max = 8
    /\ SubSeq(irregular_prefixes[7], 1, 3) = <<17, 52, 51>>
    /\ irregular_prefixes[4] = <<20>>

----------------------------------------------------------------------------
(* Properties of the longest-run analysis *)

\* positions s..s+l-1 of col all match the predictor of column k
IsRun(col, k, s, l) ==
    /\ l >= 1
    /\ s >= 1
    /\ s + l - 1 <= Len(col)
    /\ \A n \in s..(s + l - 1) : col[n] = n * (n + 2 * (k - 1))

\* the length of the longest contiguous matching run of col, 0 without a match
LongestRunLength(col, k) ==
    MaxOrZero({l \in 1..Len(col) : \E s \in 1..Len(col) : IsRun(col, k, s, l)})

\* C17: for every column analyze_columns reports, run_length is the length
\* of the longest contiguous run of positions matching the predictor and
\* stabilization_n its 1-based start; of several longest runs the earliest is
\* reported, and a run that reaches the end of the column counts.
C17_LongestRunEarliestOnTies ==
    pc = "analyzed" =>
        \A k \in DOMAIN sequences :
            LET col == columns[k]
                len == LongestRunLength(col, k)
            IN  /\ sequences[k].run_length = len
                /\ len > 0 =>
                      /\ IsRun(col, k, sequences[k].stabilization_n, len)
                      /\ \A s \in 1..Len(col) :
                            IsRun(col, k, s, len) => sequences[k].stabilization_n <= s
                /\ len = 0 => sequences[k].stabilization_n = 0

C17_Witness ==
    /\ pc = "analyzed"
    /\ columns[4] = <<7, 20, 27>>
    /\ sequences[4].stabilization_n = 1
    /\ sequences[4].run_length = 1

\* C18 as stated: the irregular prefix is the sorted, deduplicated set of
\* every column value at a position strictly before stabilization_n.
C18_PrefixIsEverythingBefore ==
    pc = "analyzed" =>
        \A k \in DOMAIN sequences :
            LET vals == {columns[k][n] : n \in 1..(sequences[k].stabilization_n - 1)}
                prefix == sequences[k].irregular_prefix
            IN  /\ {prefix[i] : i \in DOMAIN prefix} = vals
                /\ StrictlyIncreasing(prefix)

\* C18: the irregular prefix is the sorted, deduplicated set of the column
\* values that stand at a position strictly before stabilization_n and differ
\* from the predictor there; a value of an earlier, shorter matching run is
\* not part of it.
C18_PrefixIsMismatchesBefore ==
    pc = "analyzed" =>
        \A k \in DOMAIN sequences :
            LET col == columns[k]
                prefix == sequences[k].irregular_prefix
            IN  /\ StrictlyIncreasing(prefix)
                /\ \A v \in ColVals :
                      (\E i \in DOMAIN prefix : prefix[i] = v) <=>
                      (\E n \in 1..Len(col) :
                          /\ n < sequences[k].stabilization_n
                          /\ col[n] = v
                          /\ ~IsRun(col, k, n, 1))
                /\ \A i \in DOMAIN prefix : prefix[i] \in ColVals

C18_Witness ==
    /\ pc = "analyzed"
    /\ columns[4] = <<7, 20, 27, 40>>
    /\ sequences[4].stabilization_n = 3
    /\ sequences[4].irregular_prefix = <<20>>

\* analyze_columns has returned or raised
AnalysisEnded ==
    \/ pc = "analyzed"
    \/ pc = "error" /\ error = "analyze_columns"

\* C19: analyze_columns never raises; a non-empty column (index >= 4) in
\* which no position matches the predictor gets an explicit no-result entry,
\* stabilization_n = None and run_length = 0.
C19_NoMatchGivesNoResultEntry ==
    AnalysisEnded =>
        /\ pc = "analyzed"
        /\ \A k \in 4..Len(columns) :
              (k <= k_max /\ columns[k] # <<>> /\ LongestRunLength(columns[k], k) = 0) =>
                  /\ k \in DOMAIN sequences
                  /\ sequences[k].stabilization_n = 0
                  /\ sequences[k].run_length = 0

----------------------------------------------------------------------------
(* Properties of the classifier's error handling *)

\* C20: check_consecutive_prime_chain never raises on segments of positive
\* integers: it returns, and every key is either recorded as a match or
\* skipped, also when the backward walk reaches the prime 2.
C20_ClassifierNeverRaises ==
    ChainReturned =>
        /\ pc = "done"
        /\ error = "none"
        /\ \A key \in DOMAIN L_split :
              ChainOutcome(L_split[key].right) \in {"valid", "invalid", "skip"}
              /\ (key \in DOMAIN prime_chains <=>
                      ChainOutcome(L_split[key].right) = "valid")

----------------------------------------------------------------------------
(* Properties of the skipped columns *)

\* column k of the array, as extract_irregular_prefixes builds it
ArrayColumn(md, k) ==
    LET grouped == grouped_by_y(md)
        ys == DOMAIN grouped
    IN  IF ys = {} THEN <<>>
        ELSE ColumnOf(grouped, SortedSeq(ys, 1, Max(ys)), k - 1)

\* every entry of col stands on the quadratic n*(n + 2*(k-1))
PureQuadratic(col, k) == \A n \in 1..Len(col) : col[n] = n * (n + 2 * (k - 1))

\* C21: for every k_max >= 4, at the horizon compute_n_end_from_k(k_max),
\* every entry of the columns 1, 2 and 3 equals n*(n + 2*(k-1)), in the
\* columns of the array (1_15_L.py) and in those of build_columns (1_19.py):
\* the skipped columns hold no irregular value.
C21_SkippedColumnsArePureQuadratics ==
    /\ (k_max >= 4 /\ pc \in {"columns_built", "analyzed"}) =>
          /\ Len(columns) >= 3
          /\ \A k \in 1..3 : columns[k] # <<>> /\ PureQuadratic(columns[k], k)
    /\ (k_max >= 4 /\ pc = "extracted") =>
          \A k \in 1..3 :
              /\ ArrayColumn(max_delta, k) # <<>>
              /\ PureQuadratic(ArrayColumn(max_delta, k), k)

C21_Witness ==
    /\ pc = "extracted"
    /\ k_max = 5
    /\ Len(ArrayColumn(max_delta, 3)) = 9
    /\ ArrayColumn(max_delta, 3)[9] = 9 * 13

----------------------------------------------------------------------------
(* C23: the array while compute_max_delta_memopt runs *)

\* gaps b-a of the pairs processed so far with b*b - a*a = x
GapsProcessed(x) == {pq[2] - pq[1] : pq \in {rs \in processed : rs[2] * rs[2] - rs[1] * rs[1] = x}}

\* every entry is the maximum gap over the pairs processed so far, 0 if none
RunningMaximum ==
    pc \in {"grid", "grid_done"} =>
        \A x \in DOMAIN max_delta : max_delta[x] = MaxOrZero(GapsProcessed(x))

\* one step of the running generator: an entry changes only to a strictly
\* greater value, and a pair whose gap is not greater than the stored one
\* leaves the whole array unchanged
MonotoneUpdate ==
    (pc = "grid" /\ pc' \in {"grid", "grid_done"}) =>
        /\ DOMAIN max_delta' = DOMAIN max_delta
        /\ \A x \in DOMAIN max_delta :
              /\ max_delta'[x] >= max_delta[x]
              /\ max_delta'[x] # max_delta[x] => max_delta'[x] > max_delta[x]
        /\ (processed' # processed /\ b - a <= max_delta[b * b - a * a]) =>
              max_delta' = max_delta

\* C23: while compute_max_delta_memopt runs, after any number of processed
\* pairs each entry max_delta[x] is the maximum b-a over the pairs processed so
\* far with b*b - a*a = x (0 if none); an entry is overwritten only by a
\* strictly greater value, so no entry decreases and a pair whose gap is not
\* greater leaves the array unchanged.
C23_RunningMaxMonotone == []RunningMaximum /\ [][MonotoneUpdate]_vars

\* the run has processed (0, 3) and later (4, 5), both with x = 9, and the
\* entry kept the greater gap 3
C23_Witness ==
    /\ pc = "grid"
    /\ <<0, 3>> \in processed
    /\ <<4, 5>> \in processed
    /\ max_delta[9] = 3

----------------------------------------------------------------------------
(* C27: the indices compute_max_delta_memopt uses *)

\* max_x = (n_end // 2) ** 2
max_x(n) == (n \div 2) * (n \div 2)

\* C27: compute_max_delta_memopt never indexes outside its array: for every
\* n_end >= 0 and every pair (a, b) the loops enumerate,
\* 1 <= b*b - a*a <= (n_end//2)^2, so every read and write of max_delta[x] is
\* within the allocated length (n_end//2)^2 + 1, no IndexError is raised and
\* entry 0 stays 0.
C27_IndicesWithinArray ==
    /\ error # "compute_max_delta_memopt"
    /\ pc \in {"grid", "grid_done"} =>
          /\ DOMAIN max_delta = 0..max_x(n_end)
          /\ max_delta[0] = 0
          /\ \A pq \in processed :
                /\ 1 <= pq[2] * pq[2] - pq[1] * pq[1]
                /\ pq[2] * pq[2] - pq[1] * pq[1] <= max_x(n_end)
    /\ (pc = "grid" /\ a < n_end \div 2 /\ b < InnerStop(n_end, a)) =>
          /\ 1 <= b * b - a * a
          /\ b * b - a * a <= max_x(n_end)

\* an odd horizon, where the pair (0, n_end//2) writes the last cell of the
\* array: n_end = 15, x = 49 = max_x
C27_Witness ==
    /\ pc = "grid_done"
    /\ n_end = 15
    /\ <<0, 7>> \in processed
    /\ DOMAIN max_delta = 0..49
    /\ max_delta[49] = 7
    /\ max_delta[0] = 0

----------------------------------------------------------------------------
(* C28: the entries of the array against the divisors of x *)

\* the gaps of all pairs 0 <= a < b with b*b - a*a = x: the divisors d of x
\* with d*d <= x and d, x/d of the same parity (d = b - a, x/d = b + a)
GapDivisors(x) ==
    {d \in 1..Isqrt(x) : x % d = 0 /\ d % 2 = (x \div d) % 2}

\* C28: every non-zero entry of the array compute_max_delta_memopt(n_end)
\* returns is the true, horizon-independent maximal gap: if max_delta[x] = y > 0
\* then y divides x, y*y <= x, y and x/y have the same parity, and no divisor d
\* of x with y < d, d*d <= x and d = x/d (mod 2) exists.
C28_NonZeroEntryIsTrueMaxGap ==
    pc = "grid_done" =>
        \A x \in DOMAIN max_delta :
            max_delta[x] > 0 =>
                LET y == max_delta[x]
                IN  /\ x % y = 0
                    /\ y * y <= x
                    /\ y % 2 = (x \div y) % 2
                    /\ \A d \in GapDivisors(x) : d <= y

\* a returned array with entries whose x has several same-parity divisor
\* pairs: 45 = 1*45 = 3*15 = 5*9 and 9 = 1*9 = 3*3
C28_Witness ==
    /\ pc = "grid_done"
    /\ 45 \in DOMAIN max_delta
    /\ max_delta[45] = 5
    /\ max_delta[9] = 3
    /\ GapDivisors(45) = {1, 3, 5}

----------------------------------------------------------------------------
(* C26: the keys of the report against the keys assembled *)

\* the lines of the report as a set
ReportLines == {output_file.lines[i] : i \in DOMAIN output_file.lines}

\* the keys the report has a ":1" line for
KeysWritten == {ln[1] : ln \in {l \in ReportLines : Len(l) = 3 /\ l[2] = 1}}

\* C26: every assembled L-sequence reaches the report: for every k_max >= 5
\* and every n with 0 <= n < max irregular-prefix length the output file holds
\* the entry of key L(n+4), its left part and, when non-empty, its right part,
\* so the set of keys written equals the set of keys of L_values / L_split.
C26_EveryLSequenceWritten ==
    (k_max >= 5 /\ pc = "saved") =>
        LET max_len == Max({Len(irregular_prefixes[k]) : k \in DOMAIN irregular_prefixes})
        IN  /\ \A n \in 0..(max_len - 1) :
                  /\ LKey(n + 4) \in DOMAIN L_split
                  /\ <<LKey(n + 4), 1, L_split[LKey(n + 4)].left>> \in ReportLines
                  /\ L_split[LKey(n + 4)].right # <<>> =>
                        <<LKey(n + 4), 2, L_split[LKey(n + 4)].right>> \in ReportLines
            /\ KeysWritten = DOMAIN L_values
            /\ KeysWritten = DOMAIN L_split

----------------------------------------------------------------------------
(* C30: positions of a column against gap values *)

\* the gap values y whose group {x : max_delta[x] = y} has at least k members
GapsWithAtLeast(md, k) ==
    {y \in GroupKeys(md) : Cardinality(GapMembers(md, y)) >= k}

\* C30: column positions are aligned with gap values: for every k_max >= 5,
\* with max_delta built at the horizon compute_n_end_from_k(k_max), and every
\* column k with 4 <= k < k_max, the gap values whose group has at least k
\* members are exactly 1, 2, ..., m for some m, so the entry at position i of
\* column k in extract_irregular_prefixes is the k-th smallest x of gap i and
\* the predictor i*(i + 2*(k-1)) is compared against the right gap.
C30_ColumnPositionsAreGaps ==
    (k_max >= 5 /\ pc = "extracted") =>
        \A k \in 4..(k_max - 1) :
            LET gaps == GapsWithAtLeast(max_delta, k)
                col == ArrayColumn(max_delta, k)
            IN  /\ gaps = 1..Cardinality(gaps)
                /\ Len(col) = Cardinality(gaps)
                /\ \A i \in 1..Len(col) :
                      col[i] = KthSmallest(GapMembers(max_delta, i), k)
                /\ LET at == {i \in gaps :
                                KthSmallest(GapMembers(max_delta, i), k)
                                    # i * (i + 2 * (k - 1))}
                       pos == SortedSeq(at, 1, MaxOrZero(at))
                   IN  IF k \in DOMAIN irregular_prefixes
                       THEN irregular_prefixes[k] =
                               [j \in 1..Len(pos) |->
                                   KthSmallest(GapMembers(max_delta, pos[j]), k)]
                       ELSE at = {}

\* k_max = 6: column 5 runs over the gaps 1..m and its entries at gaps 1, 2, 3
\* are the irregular ones
C30_Witness ==
    /\ pc = "extracted"
    /\ k_max = 6
    /\ GapsWithAtLeast(max_delta, 5) = 1..Cardinality(GapsWithAtLeast(max_delta, 5))
    /\ Cardinality(GapsWithAtLeast(max_delta, 5)) > 3
    /\ irregular_prefixes[5] = <<11, 28, 56>>
    /\ KthSmallest(GapMembers(max_delta, 2), 5) = 28

----------------------------------------------------------------------------
(* C24: what the stages after the generator leave alone *)

\* compute_max_delta_memopt has returned
GridReturned == pc = "grid_done" \/ Extracted \/ (pc = "error" /\ error = "extract_irregular_prefixes")

\* the splitter has returned for every key
SplitDone ==
    \/ pc \in {"split_done", "saved", "done"}
    \/ pc = "error" /\ error = "check_consecutive_prime_chain"

\* one step of the pipeline leaves every finished stage's result as it was
StagesReadOnly ==
    /\ GridReturned => max_delta' = max_delta
    /\ Extracted => irregular_prefixes' = irregular_prefixes
    /\ Assembled => L_values' = L_values
    /\ SplitDone => L_split' = L_split

\* C24: once the Delta-Grid Generator has returned no later stage changes its
\* input: extract_irregular_prefixes leaves max_delta unchanged, the assembly
\* leaves irregular_prefixes unchanged, split_on_strict_decrease leaves L
\* unchanged and check_consecutive_prime_chain leaves L_split and its segments
\* unchanged.
C24_StagesLeaveInputsUnchanged == [][StagesReadOnly]_vars

\* the pipeline has run to its end and every intermediate result is still the
\* value its stage produced
C24_Witness ==
    /\ pc = "done"
    /\ k_max = 6
    /\ max_delta = compute_max_delta_memopt(n_end)
    /\ irregular_prefixes = extract_irregular_prefixes(max_delta, k_max)
    /\ L_values = assemble(irregular_prefixes, k_max)
    /\ L_values[LKey(4)] = <<20, 11>>
    /\ L_split = split_all(L_values)
    /\ L_split[LKey(4)].right = <<11>>

----------------------------------------------------------------------------
(* compute_max_delta(n_end) of 1_19.py for every horizon 0..MaxNEnd *)

NextGrid19 == Grid19Call \/ Grid19Pair \/ Grid19NextA \/ Grid19Return

SpecGrid19 == InitGrid /\ [][NextGrid19]_vars

\* C29: the array generator and the dictionary generator agree wherever the
\* array is populated: for every n_end and every x with
\* compute_max_delta_memopt(n_end)[x] > 0, x is a key of compute_max_delta(n_end)
\* and compute_max_delta(n_end)[x] = compute_max_delta_memopt(n_end)[x].
C29_DictAgreesWithArray ==
    pc = "grid19_done" =>
        LET max_delta_mem == compute_max_delta_memopt(n_end)
        IN  \A x \in DOMAIN max_delta_mem :
                max_delta_mem[x] > 0 =>
                    /\ x \in DOMAIN max_delta
                    /\ max_delta[x] = max_delta_mem[x]

\* the dictionary of horizon 16 next to the array of horizon 16: both hold
\* 9 -> 3, and the dictionary also has keys the array leaves at 0 or lacks
C29_Witness ==
    /\ pc = "grid19_done"
    /\ n_end = 16
    /\ compute_max_delta_memopt(n_end)[9] = 3
    /\ max_delta[9] = 3
    /\ compute_max_delta_memopt(n_end)[64] = 0
    /\ max_delta[64] = 8
    /\ 225 \in DOMAIN max_delta

----------------------------------------------------------------------------
(* The report loop of 1_17.py: the pipeline up to the split, then one        *)
(* iteration per n of range(4, k_max), with the OEIS request of an entry     *)
(* that has a right part                                                     *)

\* what the server of the report loop can come back with: a network error, an
\* unparsable body, a reply without results, a reply with one result, and a
\* reply whose result is not an object
ReportResponses ==
    {RequestException, NotJson,
     JsonReply(JDict(<<>>)),
     JsonReply(JDict([results |->
        JList(<<JDict([number |-> JNumber(45), name |-> JString(<<"T">>)])>>)])),
     JsonReply(JList(<<JNull>>))}

\* f.write(f"{key}:2 {parts['right']}{oeis_str}\n"); f.write("\n")
RightLines(key, right, ms) ==
    <<(IF ms # <<>> THEN <<key, 2, right, ms[1]>> ELSE <<key, 2, right>>),
      <<"blank">>>>

\* with open(output_file, "w") as f:
ReportOpen ==
    /\ pc = "split_done"
    /\ output_file' = [opened |-> TRUE, lines |-> <<>>]
    /\ report_n' = 4
    /\ pc' = "report"
    /\ UNCHANGED <<k_max, n_end, error, a, b, max_delta, irregular_prefixes,
                   L_values, L_split, prime_chains, columns, sequences,
                   processed, n_start, found_numbers, oeis_call, response,
                   matches, partition, workers, oeis_log>>

\* one iteration of the loop up to the first point it can wait: without a
\* right part (or without the key) the whole iteration; otherwise the ":1"
\* line, then match_to_oeis(parts['right']) up to requests.get(url)
ReportIteration ==
    /\ pc = "report"
    /\ report_n < k_max
    /\ IF LKey(report_n) \in DOMAIN L_split /\ L_split[LKey(report_n)].right # <<>>
       THEN /\ output_file' = [output_file EXCEPT !.lines =
                    Append(@, <<LKey(report_n), 1, L_split[LKey(report_n)].left>>)]
            /\ oeis_call' = [sequence |-> L_split[LKey(report_n)].right,
                             max_results |-> 1]
            /\ oeis_log' = Append(oeis_log, "request")
            /\ pc' = "in_flight"
            /\ UNCHANGED report_n
       ELSE /\ output_file' = [output_file EXCEPT !.lines =
                    @ \o LinesOf(L_split, report_n)]
            /\ report_n' = report_n + 1
            /\ UNCHANGED <<oeis_call, oeis_log, pc>>
    /\ UNCHANGED <<k_max, n_end, error, a, b, max_delta, irregular_prefixes,
                   L_values, L_split, prime_chains, columns, sequences,
                   processed, n_start, found_numbers, response, matches,
                   partition, workers>>

\* the rest of match_to_oeis and of the iteration: the except branches return
\* [] at once, the other path ends with time.sleep(pause)
OeisReply ==
    /\ pc = "in_flight"
    /\ \E resp \in ReportResponses :
        /\ response' = resp
        /\ IF resp \in {RequestException, NotJson}
           THEN /\ matches' = <<>>
                /\ oeis_log' = Append(oeis_log, "reply")
                /\ output_file' = [output_file EXCEPT !.lines =
                        @ \o RightLines(LKey(report_n), oeis_call.sequence, <<>>)]
                /\ report_n' = report_n + 1
                /\ pc' = "report"
                /\ UNCHANGED error
           ELSE IF match_to_oeis_raises(resp[2], oeis_call.max_results)
           THEN /\ oeis_log' = Append(oeis_log, "reply")
                /\ pc' = "error"
                /\ error' = "match_to_oeis"
                /\ UNCHANGED <<matches, output_file, report_n>>
           ELSE /\ matches' = MatchesOf(resp[2], oeis_call.max_results)
                /\ oeis_log' = oeis_log \o <<"reply", "sleep">>
                /\ output_file' = [output_file EXCEPT !.lines =
                        @ \o RightLines(LKey(report_n), oeis_call.sequence,
                                        MatchesOf(resp[2], oeis_call.max_results))]
                /\ report_n' = report_n + 1
                /\ pc' = "report"
                /\ UNCHANGED error
    /\ UNCHANGED <<k_max, n_end, a, b, max_delta, irregular_prefixes, L_values,
                   L_split, prime_chains, columns, sequences, processed,
                   n_start, found_numbers, oeis_call, partition, workers>>

\* the loop is exhausted and the file closed
ReportClose ==
    /\ pc = "report"
    /\ report_n >= k_max
    /\ pc' = "report_done"
    /\ UNCHANGED <<k_max, n_end, error, a, b, max_delta, irregular_prefixes,
                   L_values, L_split, output_file, prime_chains, columns,
                   sequences, processed, probeVars>>

NextReport ==
    \/ Horizon
    \/ GridCall
    \/ GridPair
    \/ GridNextA
    \/ GridReturn
    \/ Extract
    \/ Assemble
    \/ Split
    \/ ReportOpen
    \/ ReportIteration
    \/ OeisReply
    \/ ReportClose

SpecReport == Init /\ [][NextReport]_vars

\* C25: across the match_to_oeis calls of the report loop any two consecutive
\* HTTP requests are separated by a pause: after every request, whether it
\* succeeded, failed with a network error or returned an unparsable payload,
\* the pause elapses before the next request is sent, and no two requests are
\* in flight at the same time.
C25_PauseBetweenRequests ==
    \A i \in DOMAIN oeis_log : \A j \in DOMAIN oeis_log :
        (i < j /\ oeis_log[i] = "request" /\ oeis_log[j] = "request") =>
            /\ \E r \in (i + 1)..(j - 1) : oeis_log[r] = "reply"
            /\ \E s \in (i + 1)..(j - 1) : oeis_log[s] = "sleep"

----------------------------------------------------------------------------
(* The generator with the outer index a split between two workers: each     *)
(* worker runs the loops of compute_max_delta_memopt over its own values of *)
(* a on an array of its own, the steps of the workers interleave freely,    *)
(* and the arrays are merged by element-wise max                            *)

Workers == {"w1", "w2"}

\* the pairs (a, b) in the order the double loop visits them, from (p, q) on
RECURSIVE PairsFrom(_, _, _)
PairsFrom(n, p, q) ==
    IF p >= n \div 2 THEN <<>>
    ELSE IF q >= InnerStop(n, p) THEN PairsFrom(n, p + 1, p + 2)
    ELSE <<<<p, q>>>> \o PairsFrom(n, p, q + 1)

LoopPairs(n) == PairsFrom(n, 0, 1)

\* the pairs of the values of a that part gives to worker w, in loop order
PairsOfWorker(n, part, w) == SelectSeq(LoopPairs(n), LAMBDA pq : part[pq[1]] = w)

\* element-wise max of the workers' arrays
MergeByMax(ws, n) ==
    [x \in 0..max_x(n) |-> Max({ws[w].max_delta[x] : w \in Workers})]

\* the values of a are dealt out, every worker starts from [0]*(max_x+1)
PartitionCall ==
    /\ pc = "horizon_done"
    /\ \E part \in [Range(0, n_end \div 2) -> Workers] :
        /\ partition' = part
        /\ workers' = [w \in Workers |->
                          [todo |-> PairsOfWorker(n_end, part, w),
                           max_delta |-> ZeroArray(n_end)]]
    /\ pc' = "partitioned"
    /\ UNCHANGED <<k_max, n_end, error, a, b, max_delta, irregular_prefixes,
                   L_values, L_split, output_file, prime_chains, columns,
                   sequences, processed, n_start, found_numbers, oeis_call,
                   response, matches, report_n, oeis_log>>

\* some worker processes its next pair with the update rule of the generator
WorkerPair ==
    /\ pc = "partitioned"
    /\ \E w \in Workers :
        /\ workers[w].todo # <<>>
        /\ LET pq == Head(workers[w].todo)
           IN  IF PairInBounds(workers[w].max_delta, pq[1], pq[2])
               THEN /\ workers' = [workers EXCEPT ![w] =
                            [todo |-> Tail(workers[w].todo),
                             max_delta |-> UpdatePair(workers[w].max_delta, pq[1], pq[2])]]
                    /\ UNCHANGED <<pc, error>>
               ELSE /\ pc' = "error"
                    /\ error' = "compute_max_delta_memopt"
                    /\ UNCHANGED workers
    /\ UNCHANGED <<k_max, n_end, a, b, max_delta, irregular_prefixes, L_values,
                   L_split, output_file, prime_chains, columns, sequences,
                   processed, n_start, found_numbers, oeis_call, response,
                   matches, partition, report_n, oeis_log>>

\* every worker is through its pairs: the arrays are merged
Merge ==
    /\ pc = "partitioned"
    /\ \A w \in Workers : workers[w].todo = <<>>
    /\ max_delta' = MergeByMax(workers, n_end)
    /\ pc' = "merged"
    /\ UNCHANGED <<k_max, n_end, error, a, b, irregular_prefixes, L_values,
                   L_split, output_file, prime_chains, columns, sequences,
                   processed, probeVars>>

NextPartition ==
    \/ GridCall
    \/ GridPair
    \/ GridNextA
    \/ GridReturn
    \/ PartitionCall
    \/ WorkerPair
    \/ Merge

SpecPartition == InitGrid /\ [][NextPartition]_vars

\* C22: the final array depends only on n_end and not on the order in which
\* pairs are processed: every run of the generator returns the same array, and
\* for every partition of the outer index a into disjoint subsets and every
\* interleaving of the updates, one array per subset built with the same
\* update rule and merged by element-wise max is the array of the sequential
\* double loop.
C22_ArrayIndependentOfOrder ==
    pc \in {"grid_done", "merged"} => max_delta = compute_max_delta_memopt(n_end)

\* a merged run where a = 0 and a = 4 went to different workers: x = 9 got
\* gap 3 from one and gap 1 from the other, and the merge kept 3
C22_Witness ==
    /\ pc = "merged"
    /\ n_end = 15
    /\ partition[0] # partition[4]
    /\ workers[partition[0]].max_delta[9] = 3
    /\ workers[partition[4]].max_delta[9] = 1
    /\ max_delta[9] = 3

====
